---- MODULE Spec2Model ----
(***************************************************************************)
(* Model of steelbrain/media-toolkit:                                      *)
(*   - speechFilter / VADProcessor (media-speech-detection-web/src)        *)
(*   - bufferSpeech               (media-buffer-speech/src)                *)
(*                                                                         *)
(* Audio is identified by its position in the input stream: a sample       *)
(* array is the half-open range <<lo, hi>> of stream positions it holds,   *)
(* and an analysis frame is the number f of the 512-sample window          *)
(* [(f-1)*512, f*512) it was cut from.  Probabilities are in hundredths.   *)
(* Clock values are milliseconds as read from Date.now().                  *)
(***************************************************************************)
EXTENDS Integers, Sequences, FiniteSets, TLC

VARIABLES
    options,      \* VADOptions given to speechFilter
    vad,          \* the VADProcessor instance (its private fields)
    phase,        \* "open" until the transform's flush has run, then "closed"
    now,          \* Date.now()
    emitted,      \* history: frames enqueued downstream by speechFilter
    events,       \* history: callbacks invoked, in order
    hist,         \* history, per frame processed: the samples it was cut
                  \* from (cut), the classifier's outcome (ok, p), vadState
                  \* when it was handled (st) and after (to), frames it made
                  \* processChunk return (out)
    written,      \* history: number of samples written to speechFilter
    pending,      \* chunks queued in speechFilter's writable side, transform
                  \* not yet called for them
    proc,         \* the transform call in progress: where it stands (pc), its
                  \* outputChunks (out), its classifier calls in flight (runs)
    bopts,        \* BufferSpeechOptions given to bufferSpeech (noEmit aside)
    pb,           \* bufferSpeech's closure variables and pending timers, per
                  \* value of noEmit
    calls,        \* history: onBuffered / onError callbacks, per value of noEmit
    queue,        \* history: arrays enqueued downstream, per value of noEmit
    arrivals      \* history: Date.now() at every item written to bufferSpeech

vadVars == <<options, vad, emitted, events, hist, written, pending, proc>>
bufVars == <<bopts, pb, calls, queue, arrivals>>
vars == <<phase, now, vadVars, bufVars>>

----------------------------------------------------------------------------
(* Bounds of the model *)

MaxFrames == 4       \* frames cut from the input in one run
MaxTicks == 2        \* clock advances (of TickMs each) in one run
ScenarioFrames == 10 \* frames of the ten-frame scenario
MaxItems == 4        \* items written to bufferSpeech in one run
MaxClock == 8        \* last clock value of a bufferSpeech run
MaxLate == 1         \* how long after its deadline a due timer callback may run
MaxPending == 2      \* chunks queued in speechFilter's writable side at one time
SegmentFrames == 7   \* frames of a run long enough for two segments
MaxOutside == 3      \* how far outside 0..1 a threshold option goes, in hundredths
MaxDuration == 420   \* longest duration option tried, in ms

(* Program constants *)

FRAME_SIZE == 512
SAMPLE_RATE == 16000
CONTEXT_SIZE == 64
FrameMs == 32
NullState == -1      \* state: ort.Tensor | null = null
ZeroState == 0       \* the [2,1,128] tensor of zeros made by resetState
NoTimer == -1        \* pauseTimer: NodeJS.Timeout | null = null
NullTime == -1       \* bufferStartTime: number | null = null

TickMs == FrameMs

----------------------------------------------------------------------------
(* Helpers *)

Max(a, b) == IF a >= b THEN a ELSE b
Min(a, b) == IF a <= b THEN a ELSE b

\* Math.round(a / b) for b > 0: halves round towards +infinity
Round(a, b) == (2 * a + b) \div (2 * b)

\* the frames lo..hi as a sequence
Frames(lo, hi) == [i \in 1..(hi - lo + 1) |-> lo + i - 1]

BufLen(buf) == buf[2] - buf[1]

\* new Float32Array(0)
EmptyArray == <<0, 0>>

\* buf.slice(-n) of a buffer of n samples or more
Trailing(buf, n) == <<buf[2] - n, buf[2]>>

\* context.fill(0): CONTEXT_SIZE samples of silence, placed before the stream
ZeroContext == <<-CONTEXT_SIZE, 0>>

\* results.stateN: the tensor session.run hands back for this frame
NextState(frame) == frame

\* mutant: what follows the part cut off is dropped
SliceFrom_DropRest(buf, from) == EmptyArray

\* buf.slice(from)
SliceFrom(buf, from) ==
    IF BufLen(buf) <= from THEN EmptyArray ELSE <<buf[1] + from, buf[2]>>

----------------------------------------------------------------------------
(* VADProcessor *)

\* constructor: options -> the readonly configuration fields
Threshold(o) == Max(1, Min(99, o.threshold))
NegativeThreshold(o) == Max(1, Min(Threshold(o) - 1, Threshold(o) - 15))
\* mutant: the duration is cut down to whole frames, not rounded
MinSpeechFrames_Floor(o) == Max(1, o.minSpeechDurationMs \div FrameMs)

MinSpeechFrames(o) == Max(1, Round(o.minSpeechDurationMs, FrameMs))
RedemptionFrames(o) == Max(1, Round(o.redemptionDurationMs, FrameMs))
LookBackFrames(o) == Max(0, Round(o.lookBackDurationMs, FrameMs))

\* field initialisers of the class, before initialize()
Constructed ==
    [ session |-> FALSE,
      state |-> NullState,
      context |-> ZeroContext,
      audioBuffer |-> EmptyArray,
      speechBuffer |-> <<>>,
      lookBackBuffer |-> <<>>,
      vadState |-> "silent",
      speechFrameCount |-> 0,
      redemptionCounter |-> 0,
      speechStartTime |-> 0,
      frameIndex |-> 0 ]

\* mutant: the state machine's fields are left as they were
resetState_KeepMachine(v) ==
    [ v EXCEPT !.state = ZeroState,
               !.context = ZeroContext,
               !.frameIndex = 0,
               !.audioBuffer = EmptyArray,
               !.speechBuffer = <<>>,
               !.lookBackBuffer = <<>> ]

resetState(v) ==
    [ v EXCEPT !.state = ZeroState,
               !.context = ZeroContext,
               !.vadState = "silent",
               !.speechFrameCount = 0,
               !.redemptionCounter = 0,
               !.speechStartTime = 0,
               !.frameIndex = 0,
               !.audioBuffer = EmptyArray,
               !.speechBuffer = <<>>,
               !.lookBackBuffer = <<>> ]

initialize(v) ==
    IF v.session THEN v ELSE resetState([v EXCEPT !.session = TRUE])

destroy(v) ==
    [ v EXCEPT !.session = FALSE,
               !.state = NullState,
               !.audioBuffer = EmptyArray,
               !.speechBuffer = <<>>,
               !.lookBackBuffer = <<>>,
               !.context = ZeroContext ]

\* mutant: the new chunk takes the place of the samples left over
appendBuffer_Replace(buffer, newData) ==
    IF BufLen(newData) = 0 THEN buffer ELSE newData

appendBuffer(buffer, newData) ==
    IF BufLen(newData) = 0 THEN buffer
    ELSE IF BufLen(buffer) = 0 THEN newData
    ELSE <<buffer[1], buffer[2] + BufLen(newData)>>

\* mutant: the lookback buffer is filled in every state, not only in silence
updateLookBackBuffer_AnyState(o, v, frame) ==
    IF LookBackFrames(o) = 0 THEN v
    ELSE LET pushed == Append(v.lookBackBuffer, frame) IN
         [ v EXCEPT !.lookBackBuffer =
             IF Len(pushed) > LookBackFrames(o) THEN Tail(pushed) ELSE pushed ]

\* mutant: a full lookback buffer keeps its frames and drops the new one
updateLookBackBuffer_DropNewest(o, v, frame) ==
    IF LookBackFrames(o) = 0 THEN v
    ELSE IF v.vadState = "silent"
    THEN LET pushed == Append(v.lookBackBuffer, frame) IN
         [ v EXCEPT !.lookBackBuffer =
             IF Len(pushed) > LookBackFrames(o) THEN v.lookBackBuffer ELSE pushed ]
    ELSE v

updateLookBackBuffer(o, v, frame) ==
    IF LookBackFrames(o) = 0 THEN v
    ELSE IF v.vadState = "silent"
    THEN LET pushed == Append(v.lookBackBuffer, frame) IN
         [ v EXCEPT !.lookBackBuffer =
             IF Len(pushed) > LookBackFrames(o) THEN Tail(pushed) ELSE pushed ]
    ELSE v

Event(e, frame, t) == [e |-> e, at |-> frame, t |-> t]

\* mutant: a failed call leaves the engine without its model state
detectSpeech_DropState(v, frame, audioFrame, outcome, t) ==
    IF ~v.session \/ v.state = NullState
    THEN [vad |-> v, probability |-> 0, ev |-> <<>>]
    ELSE IF outcome.ok
    THEN [ vad |-> [v EXCEPT !.state = NextState(frame),
                             !.context = Trailing(audioFrame, CONTEXT_SIZE)],
           probability |-> outcome.p,
           ev |-> <<>> ]
    ELSE [ vad |-> [v EXCEPT !.state = NullState,
                             !.context = Trailing(audioFrame, CONTEXT_SIZE)],
           probability |-> 0,
           ev |-> <<Event("error", frame, t)>> ]

\* mutant: a failed call leaves the context of the frame before
detectSpeech_StaleContext(v, frame, audioFrame, outcome, t) ==
    IF ~v.session \/ v.state = NullState
    THEN [vad |-> v, probability |-> 0, ev |-> <<>>]
    ELSE IF outcome.ok
    THEN [ vad |-> [v EXCEPT !.state = NextState(frame),
                             !.context = Trailing(audioFrame, CONTEXT_SIZE)],
           probability |-> outcome.p,
           ev |-> <<>> ]
    ELSE [ vad |-> v,
           probability |-> 0,
           ev |-> <<Event("error", frame, t)>> ]

\* audioFrame: the samples of the frame; outcome: what session.run does for
\* this frame: [ok, p]
detectSpeech(v, frame, audioFrame, outcome, t) ==
    IF ~v.session \/ v.state = NullState
    THEN [vad |-> v, probability |-> 0, ev |-> <<>>]
    ELSE IF outcome.ok
    THEN [ vad |-> [v EXCEPT !.state = NextState(frame),
                             !.context = Trailing(audioFrame, CONTEXT_SIZE)],
           probability |-> outcome.p,
           ev |-> <<>> ]
    ELSE [ vad |-> [v EXCEPT !.context = Trailing(audioFrame, CONTEXT_SIZE)],
           probability |-> 0,
           ev |-> <<Event("error", frame, t)>> ]

classifySpeechState(o, probability) ==
    IF probability >= Threshold(o) THEN "speech"
    ELSE IF probability >= NegativeThreshold(o) THEN "intermediate"
    ELSE "non-speech"

\* mutant: the redemption counter outlives the segment
resetSpeechState_KeepRedemption(v) ==
    [ v EXCEPT !.vadState = "silent",
               !.speechFrameCount = 0,
               !.speechBuffer = <<>> ]

resetSpeechState(v) ==
    [ v EXCEPT !.vadState = "silent",
               !.speechFrameCount = 0,
               !.redemptionCounter = 0,
               !.speechBuffer = <<>> ]

\* mutant: a segment of exactly the minimum duration counts as too short
LongEnough_Strict(o, v, t) ==
    (t - v.speechStartTime) * SAMPLE_RATE > MinSpeechFrames(o) * FRAME_SIZE * 1000

\* (Date.now() - speechStartTime) / 1000 >= minSpeechFrames * 512 / 16000,
\* both sides scaled by 1000 * SAMPLE_RATE
LongEnough(o, v, t) ==
    (t - v.speechStartTime) * SAMPLE_RATE >= MinSpeechFrames(o) * FRAME_SIZE * 1000

endSpeechSegment(o, v, frame, t) ==
    [ vad |-> resetSpeechState(v),
      ev |-> IF LongEnough(o, v, t)
             THEN <<Event("end", frame, t)>>
             ELSE <<Event("misfire", frame, t)>> ]

\* what a case of the switch leaves as it found
Same(v) == [vad |-> v, out |-> <<>>, ev |-> <<>>]

\* case 'silent'
caseSilent(o, v, speechState, frame, t) ==
    IF speechState = "speech"
    THEN [Same(v) EXCEPT !.vad = [v EXCEPT !.vadState = "detecting",
                                          !.speechFrameCount = 1,
                                          !.speechBuffer = <<frame>>]]
    ELSE Same(v)

\* mutant: in detecting, an intermediate frame cancels as a non-speech one does
caseDetecting_IntermediateCancels(o, v, speechState, frame, t) ==
    IF speechState = "speech"
    THEN LET v1 == [v EXCEPT !.speechFrameCount = @ + 1,
                             !.speechBuffer = Append(@, frame)]
         IN IF v1.speechFrameCount >= MinSpeechFrames(o)
            THEN [ vad |-> [v1 EXCEPT !.vadState = "speaking",
                                      !.speechStartTime = t,
                                      !.redemptionCounter = 0,
                                      !.lookBackBuffer = <<>>,
                                      !.speechBuffer = <<>>],
                   out |-> v1.lookBackBuffer \o v1.speechBuffer,
                   ev |-> <<Event("start", frame, t)>> ]
            ELSE [Same(v) EXCEPT !.vad = v1]
    ELSE [Same(v) EXCEPT !.vad = [v EXCEPT !.vadState = "silent",
                                          !.speechFrameCount = 0,
                                          !.speechBuffer = <<>>]]

\* mutant: the confirmed batch carries the accumulator before the lookback
caseDetecting_AccumulatorFirst(o, v, speechState, frame, t) ==
    IF speechState = "speech"
    THEN LET v1 == [v EXCEPT !.speechFrameCount = @ + 1,
                             !.speechBuffer = Append(@, frame)]
         IN IF v1.speechFrameCount >= MinSpeechFrames(o)
            THEN [ vad |-> [v1 EXCEPT !.vadState = "speaking",
                                      !.speechStartTime = t,
                                      !.redemptionCounter = 0,
                                      !.lookBackBuffer = <<>>,
                                      !.speechBuffer = <<>>],
                   out |-> v1.speechBuffer \o v1.lookBackBuffer,
                   ev |-> <<Event("start", frame, t)>> ]
            ELSE [Same(v) EXCEPT !.vad = v1]
    ELSE IF speechState = "non-speech"
    THEN [Same(v) EXCEPT !.vad = [v EXCEPT !.vadState = "silent",
                                          !.speechFrameCount = 0,
                                          !.speechBuffer = <<>>]]
    ELSE Same(v)

\* mutant: the lookback buffer is emitted at confirmation but not emptied
caseDetecting_KeepLookback(o, v, speechState, frame, t) ==
    IF speechState = "speech"
    THEN LET v1 == [v EXCEPT !.speechFrameCount = @ + 1,
                             !.speechBuffer = Append(@, frame)]
         IN IF v1.speechFrameCount >= MinSpeechFrames(o)
            THEN [ vad |-> [v1 EXCEPT !.vadState = "speaking",
                                      !.speechStartTime = t,
                                      !.redemptionCounter = 0,
                                      !.speechBuffer = <<>>],
                   out |-> v1.lookBackBuffer \o v1.speechBuffer,
                   ev |-> <<Event("start", frame, t)>> ]
            ELSE [Same(v) EXCEPT !.vad = v1]
    ELSE IF speechState = "non-speech"
    THEN [Same(v) EXCEPT !.vad = [v EXCEPT !.vadState = "silent",
                                          !.speechFrameCount = 0,
                                          !.speechBuffer = <<>>]]
    ELSE Same(v)

\* case 'detecting'
caseDetecting(o, v, speechState, frame, t) ==
    IF speechState = "speech"
    THEN LET v1 == [v EXCEPT !.speechFrameCount = @ + 1,
                             !.speechBuffer = Append(@, frame)]
         IN IF v1.speechFrameCount >= MinSpeechFrames(o)
            THEN [ vad |-> [v1 EXCEPT !.vadState = "speaking",
                                      !.speechStartTime = t,
                                      !.redemptionCounter = 0,
                                      !.lookBackBuffer = <<>>,
                                      !.speechBuffer = <<>>],
                   out |-> v1.lookBackBuffer \o v1.speechBuffer,
                   ev |-> <<Event("start", frame, t)>> ]
            ELSE [Same(v) EXCEPT !.vad = v1]
    ELSE IF speechState = "non-speech"
    THEN [Same(v) EXCEPT !.vad = [v EXCEPT !.vadState = "silent",
                                          !.speechFrameCount = 0,
                                          !.speechBuffer = <<>>]]
    ELSE Same(v)

\* case 'speaking'
caseSpeaking(o, v, speechState, frame, t) ==
    IF speechState = "non-speech"
    THEN [Same(v) EXCEPT !.vad = [v EXCEPT !.vadState = "intermediate",
                                          !.redemptionCounter = 1]]
    ELSE IF speechState = "intermediate"
    THEN [Same(v) EXCEPT !.vad = [v EXCEPT !.vadState = "intermediate",
                                          !.redemptionCounter = Max(1, @)]]
    ELSE [Same(v) EXCEPT !.vad = [v EXCEPT !.redemptionCounter = 0],
                        !.out = <<frame>>]

\* mutant: the segment ends one frame later, when the counter exceeds the limit
caseIntermediate_EndsLate(o, v, speechState, frame, t) ==
    IF speechState = "speech"
    THEN [Same(v) EXCEPT !.vad = [v EXCEPT !.vadState = "speaking",
                                          !.redemptionCounter = 0],
                        !.out = <<frame>>]
    ELSE LET v1 == [v EXCEPT !.redemptionCounter = @ + 1] IN
         IF v1.redemptionCounter > RedemptionFrames(o)
         THEN LET e == endSpeechSegment(o, v1, frame, t) IN
              [vad |-> e.vad, out |-> <<frame>>, ev |-> e.ev]
         ELSE [vad |-> v1, out |-> <<frame>>, ev |-> <<>>]

\* case 'intermediate'
caseIntermediate(o, v, speechState, frame, t) ==
    IF speechState = "speech"
    THEN [Same(v) EXCEPT !.vad = [v EXCEPT !.vadState = "speaking",
                                          !.redemptionCounter = 0],
                        !.out = <<frame>>]
    ELSE LET v1 == [v EXCEPT !.redemptionCounter = @ + 1] IN
         IF v1.redemptionCounter >= RedemptionFrames(o)
         THEN LET e == endSpeechSegment(o, v1, frame, t) IN
              [vad |-> e.vad, out |-> <<frame>>, ev |-> e.ev]
         ELSE [vad |-> v1, out |-> <<frame>>, ev |-> <<>>]

handleSpeechDetection(o, v, probability, frame, t) ==
    LET speechState == classifySpeechState(o, probability) IN
    CASE v.vadState = "silent" -> caseSilent(o, v, speechState, frame, t)
      [] v.vadState = "detecting" -> caseDetecting(o, v, speechState, frame, t)
      [] v.vadState = "speaking" -> caseSpeaking(o, v, speechState, frame, t)
      [] v.vadState = "intermediate" -> caseIntermediate(o, v, speechState, frame, t)

\* the while loop of processChunk: inputs[i] is what happens while frame i
\* of this call is classified: the classifier's outcome and the time the
\* await takes
RECURSIVE processFrames(_, _, _, _)
processFrames(o, r, inputs, i) ==
    IF BufLen(r.vad.audioBuffer) < FRAME_SIZE THEN r
    ELSE LET lo == r.vad.audioBuffer[1]
             frame == lo \div FRAME_SIZE + 1
             v1 == [r.vad EXCEPT !.audioBuffer = SliceFrom(@, FRAME_SIZE)]
             v2 == updateLookBackBuffer(o, v1, frame)
             t == r.now + inputs[i].dt
             d == detectSpeech(v2, frame, <<lo, lo + FRAME_SIZE>>, inputs[i].outcome, t)
             h == handleSpeechDetection(o, d.vad, d.probability, frame, t)
         IN processFrames(o,
                [ vad |-> [h.vad EXCEPT !.frameIndex = @ + 1],
                  out |-> r.out \o h.out,
                  ev |-> r.ev \o d.ev \o h.ev,
                  log |-> Append(r.log, [ cut |-> <<lo, lo + FRAME_SIZE>>,
                                          ok |-> inputs[i].outcome.ok,
                                          p |-> inputs[i].outcome.p,
                                          st |-> v2.vadState,
                                          to |-> h.vad.vadState,
                                          out |-> h.out ]),
                  now |-> t ],
                inputs, i + 1)

processChunk(o, v, chunk, inputs, t) ==
    processFrames(o,
        [ vad |-> [v EXCEPT !.audioBuffer = appendBuffer(@, chunk)],
          out |-> <<>>, ev |-> <<>>, log |-> <<>>, now |-> t ],
        inputs, 1)

\* mutant: a segment cut off by the end of the stream is dropped without a word
finalize_NoEvent(o, v, t) ==
    IF v.vadState = "speaking" \/ v.vadState = "intermediate"
    THEN [vad |-> resetSpeechState(v), out |-> <<>>, ev |-> <<>>]
    ELSE [vad |-> v, out |-> <<>>, ev |-> <<>>]

\* mutant: a candidate cut off by the end of the stream is handed out
finalize_FlushAccumulator(o, v, t) ==
    IF v.vadState = "speaking" \/ v.vadState = "intermediate"
    THEN [ vad |-> resetSpeechState(v),
           out |-> <<>>,
           ev |-> IF LongEnough(o, v, t)
                  THEN <<Event("end", 0, t)>>
                  ELSE <<Event("misfire", 0, t)>> ]
    ELSE [vad |-> v, out |-> v.speechBuffer, ev |-> <<>>]

\* mutant: a segment cut off by the end of the stream always counts as ended
finalize_AlwaysEnd(o, v, t) ==
    IF v.vadState = "speaking" \/ v.vadState = "intermediate"
    THEN [ vad |-> resetSpeechState(v),
           out |-> <<>>,
           ev |-> <<Event("end", 0, t)>> ]
    ELSE [vad |-> v, out |-> <<>>, ev |-> <<>>]

\* mutant: finalize hands back the samples left over as a last, short frame
finalize_FlushLeftover(o, v, t) ==
    [ vad |-> IF v.vadState = "speaking" \/ v.vadState = "intermediate"
              THEN resetSpeechState(v) ELSE v,
      out |-> IF BufLen(v.audioBuffer) > 0 THEN <<v.frameIndex + 1>> ELSE <<>>,
      ev |-> IF v.vadState = "speaking" \/ v.vadState = "intermediate"
             THEN IF LongEnough(o, v, t)
                  THEN <<Event("end", 0, t)>>
                  ELSE <<Event("misfire", 0, t)>>
             ELSE <<>> ]

\* mutant: finalize hands back what the lookback buffer still holds
finalize_FlushLookback(o, v, t) ==
    [ vad |-> resetSpeechState(v),
      out |-> v.lookBackBuffer,
      ev |-> IF v.vadState = "speaking" \/ v.vadState = "intermediate"
             THEN IF LongEnough(o, v, t)
                  THEN <<Event("end", 0, t)>>
                  ELSE <<Event("misfire", 0, t)>>
             ELSE <<>> ]

finalize(o, v, t) ==
    IF v.vadState = "speaking" \/ v.vadState = "intermediate"
    THEN [ vad |-> resetSpeechState(v),
           out |-> <<>>,
           ev |-> IF LongEnough(o, v, t)
                  THEN <<Event("end", 0, t)>>
                  ELSE <<Event("misfire", 0, t)>> ]
    ELSE [vad |-> v, out |-> <<>>, ev |-> <<>>]

----------------------------------------------------------------------------
(* speechFilter: the transform stream around one VADProcessor *)

Probabilities == {10, 40, 80}
Outcomes ==
    [ok : {TRUE}, p : Probabilities] \cup {[ok |-> FALSE, p |-> 0]}
Delays == {0, TickMs}
ChunkLengths == {0, 256, 512, 1024}

OptionChoices ==
    [ threshold : {50},
      minSpeechDurationMs : {32, 64},
      redemptionDurationMs : {32, 64},
      lookBackDurationMs : {0, 64},
      noEmit : {FALSE} ]

DefaultOptions ==
    [ threshold |-> 50,
      minSpeechDurationMs |-> 160,
      redemptionDurationMs |-> 400,
      lookBackDurationMs |-> 384,
      noEmit |-> FALSE ]

\* no transform call is in progress
NoCall == [pc |-> "idle", out |-> <<>>, runs |-> <<>>]

\* the other transform is not part of a speechFilter run
BufferUnused ==
    /\ bopts = [durationMs |-> 0, maxBufferMs |-> 0]
    /\ pb = <<>>
    /\ calls = <<>>
    /\ queue = <<>>
    /\ arrivals = <<>>

\* mutant: the chunks are enqueued whatever noEmit says
enqueue_Always(noEmit, chunks) == chunks

\* if (!options.noEmit) for (const chunk of chunks) controller.enqueue(chunk)
enqueue(noEmit, chunks) == IF noEmit THEN <<>> ELSE chunks

\* start(): new VADProcessor(options), then initialize()
Started(o) ==
    /\ options = o
    /\ vad = initialize(Constructed)
    /\ phase = "open"
    /\ now = 0
    /\ emitted = <<>>
    /\ events = <<>>
    /\ hist = <<>>
    /\ written = 0
    /\ pending = <<>>
    /\ proc = NoCall
    /\ BufferUnused

\* transform(chunk): processChunk, then enqueue unless noEmit
Transform(lengths, outcomes, delays, maxFrames, maxNow) ==
    /\ phase = "open"
    /\ \E len \in lengths :
         LET n == (BufLen(vad.audioBuffer) + len) \div FRAME_SIZE IN
            /\ vad.frameIndex + n <= maxFrames
            /\ \E inputs \in [1..n -> [outcome : outcomes, dt : delays]] :
                 \E r \in {processChunk(options, vad, <<written, written + len>>,
                                        inputs, now)} :
                 /\ r.now <= maxNow
                 /\ vad' = r.vad
                 /\ now' = r.now
                 /\ events' = events \o r.ev
                 /\ emitted' = emitted \o enqueue(options.noEmit, r.out)
                 /\ hist' = hist \o r.log
                 /\ written' = written + len
    /\ UNCHANGED <<options, phase, pending, proc, bufVars>>

\* flush(): finalize, enqueue unless noEmit, destroy
FlushBy(maxNow) ==
    /\ phase = "open"
    /\ \E dt \in Delays :
         \E r \in {finalize(options, vad, now + dt)} :
            /\ now + dt <= maxNow
            /\ vad' = destroy(r.vad)
            /\ now' = now + dt
            /\ events' = events \o r.ev
            /\ emitted' = emitted \o enqueue(options.noEmit, r.out)
    /\ phase' = "closed"
    /\ UNCHANGED <<options, hist, written, pending, proc, bufVars>>

TransformChunk ==
    Transform(ChunkLengths, Outcomes, Delays, MaxFrames, MaxTicks * TickMs)
Flush == FlushBy(MaxTicks * TickMs)

Init == \E o \in OptionChoices : Started(o)
Next == TransformChunk \/ Flush
Spec == Init /\ [][Next]_vars

\* the ten-frame scenario: default options, one frame per chunk, one frame
\* time per classification
ScenarioChunk ==
    Transform({FRAME_SIZE}, [ok : {TRUE}, p : {10, 80}], {TickMs}, ScenarioFrames,
              ScenarioFrames * TickMs)
ScenarioFlush == FlushBy((ScenarioFrames + 1) * TickMs)

ScenarioInit == Started(DefaultOptions)
ScenarioNext == ScenarioChunk \/ ScenarioFlush
ScenarioSpec == ScenarioInit /\ [][ScenarioNext]_vars

\* two speechFilters, one per value of noEmit and alike in every other option,
\* written the same chunks, their classifier calls ending alike
PairInit ==
    /\ options \in OptionChoices
    /\ vad = [noEmit \in BOOLEAN |-> initialize(Constructed)]
    /\ phase = "open"
    /\ now = 0
    /\ emitted = [noEmit \in BOOLEAN |-> <<>>]
    /\ events = [noEmit \in BOOLEAN |-> <<>>]
    /\ hist = <<>>
    /\ written = 0
    /\ pending = <<>>
    /\ proc = NoCall
    /\ BufferUnused

PairTransform ==
    /\ phase = "open"
    /\ \E len \in ChunkLengths :
         LET n == (BufLen(vad[FALSE].audioBuffer) + len) \div FRAME_SIZE IN
            /\ vad[FALSE].frameIndex + n <= MaxFrames
            /\ \E inputs \in [1..n -> [outcome : Outcomes, dt : Delays]] :
                 \E r \in {[noEmit \in BOOLEAN |->
                              processChunk([options EXCEPT !.noEmit = noEmit],
                                           vad[noEmit], <<written, written + len>>,
                                           inputs, now)]} :
                 /\ r[FALSE].now <= MaxTicks * TickMs
                 /\ vad' = [noEmit \in BOOLEAN |-> r[noEmit].vad]
                 /\ now' = r[FALSE].now
                 /\ events' = [noEmit \in BOOLEAN |-> events[noEmit] \o r[noEmit].ev]
                 /\ emitted' = [noEmit \in BOOLEAN |->
                                  emitted[noEmit] \o enqueue(noEmit, r[noEmit].out)]
                 /\ hist' = hist \o r[FALSE].log
                 /\ written' = written + len
    /\ UNCHANGED <<options, phase, pending, proc, bufVars>>

PairFlush ==
    /\ phase = "open"
    /\ \E dt \in Delays :
         \E r \in {[noEmit \in BOOLEAN |->
                      finalize([options EXCEPT !.noEmit = noEmit], vad[noEmit],
                               now + dt)]} :
            /\ now + dt <= MaxTicks * TickMs
            /\ vad' = [noEmit \in BOOLEAN |-> destroy(r[noEmit].vad)]
            /\ now' = now + dt
            /\ events' = [noEmit \in BOOLEAN |-> events[noEmit] \o r[noEmit].ev]
            /\ emitted' = [noEmit \in BOOLEAN |->
                             emitted[noEmit] \o enqueue(noEmit, r[noEmit].out)]
    /\ phase' = "closed"
    /\ UNCHANGED <<options, hist, written, pending, proc, bufVars>>

PairNext == PairTransform \/ PairFlush
PairSpec == PairInit /\ [][PairNext]_vars

\* a VADProcessor used directly: chunks are processed, and the engine may be
\* destroyed and initialised again; hist and written go on across that
EngineOptions ==
    [ threshold |-> 50,
      minSpeechDurationMs |-> 32,
      redemptionDurationMs |-> 64,
      lookBackDurationMs |-> 64,
      noEmit |-> FALSE ]

EngineInit == Started(EngineOptions)

EngineChunk ==
    /\ written < MaxFrames * FRAME_SIZE
    /\ Transform({256, FRAME_SIZE}, Outcomes, {TickMs},
                 MaxFrames - (Len(hist) - vad.frameIndex), MaxFrames * TickMs)

EngineDestroy ==
    /\ phase = "open"
    /\ vad' = destroy(vad)
    /\ phase' = "destroyed"
    /\ UNCHANGED <<options, now, emitted, events, hist, written, pending, proc,
                   bufVars>>

EngineInitialize ==
    /\ phase = "destroyed"
    /\ vad' = initialize(vad)
    /\ phase' = "open"
    /\ UNCHANGED <<options, now, emitted, events, hist, written, pending, proc,
                   bufVars>>

EngineNext == EngineChunk \/ EngineDestroy \/ EngineInitialize
EngineSpec == EngineInit /\ [][EngineNext]_vars

\* speechFilter step by step: a transform call runs from one await to the
\* next, the producer writing further chunks meanwhile

\* mutant: the loop goes on without awaiting the classifier
AfterRunIssued_NoAwait == "cutting"

\* await this.detectSpeech(frame): processChunk is suspended until it settles
AfterRunIssued == "awaiting"

StepInit == Started(EngineOptions)

\* the end of what has been written to the stream so far
WrittenEnd == IF pending = <<>> THEN written ELSE pending[Len(pending)][2]

\* the producer writes a chunk; the stream queues it
StepWrite ==
    /\ phase = "open"
    /\ Len(pending) < MaxPending
    /\ \E len \in ChunkLengths :
         /\ WrittenEnd + len <= MaxFrames * FRAME_SIZE
         /\ pending' = Append(pending, <<WrittenEnd, WrittenEnd + len>>)
    /\ UNCHANGED <<options, vad, phase, now, emitted, events, hist, written, proc,
                   bufVars>>

\* the stream calls transform for the chunk at the head of its queue, the
\* promise of the call before having resolved: processChunk starts
StepAccept ==
    /\ phase = "open"
    /\ proc.pc = "idle"
    /\ pending # <<>>
    /\ vad' = [vad EXCEPT !.audioBuffer = appendBuffer(@, Head(pending))]
    /\ written' = Head(pending)[2]
    /\ pending' = Tail(pending)
    /\ proc' = [proc EXCEPT !.pc = "cutting", !.out = <<>>]
    /\ UNCHANGED <<options, phase, now, emitted, events, hist, bufVars>>

\* the loop cuts a frame, updates the lookback buffer and calls the classifier
StepCut ==
    /\ proc.pc = "cutting"
    /\ BufLen(vad.audioBuffer) >= FRAME_SIZE
    /\ LET lo == vad.audioBuffer[1]
           frame == lo \div FRAME_SIZE + 1
           v1 == [vad EXCEPT !.audioBuffer = SliceFrom(@, FRAME_SIZE)]
           v2 == updateLookBackBuffer(options, v1, frame)
       IN /\ vad' = v2
          /\ proc' = [proc EXCEPT
                        !.pc = AfterRunIssued,
                        !.runs = Append(@, [ frame |-> frame,
                                             cut |-> <<lo, lo + FRAME_SIZE>>,
                                             st |-> v2.vadState ])]
    /\ UNCHANGED <<options, phase, now, emitted, events, hist, written, pending,
                   bufVars>>

\* a classifier call settles: detectSpeech ends, handleSpeechDetection updates
\* the state machine, the loop goes round
StepSettle ==
    /\ \E k \in 1..Len(proc.runs) : \E outcome \in Outcomes : \E dt \in Delays :
         LET run == proc.runs[k]
             t == now + dt
             d == detectSpeech(vad, run.frame, run.cut, outcome, t)
             h == handleSpeechDetection(options, d.vad, d.probability, run.frame, t)
         IN /\ t <= MaxTicks * TickMs
            /\ vad' = [h.vad EXCEPT !.frameIndex = @ + 1]
            /\ now' = t
            /\ events' = events \o d.ev \o h.ev
            /\ hist' = Append(hist, [ cut |-> run.cut,
                                      ok |-> outcome.ok,
                                      p |-> outcome.p,
                                      st |-> run.st,
                                      to |-> h.vad.vadState,
                                      out |-> h.out ])
            /\ proc' = [ pc |-> IF proc.pc = "awaiting" THEN "cutting" ELSE proc.pc,
                         out |-> proc.out \o h.out,
                         runs |-> [i \in 1..(Len(proc.runs) - 1) |->
                                     IF i < k THEN proc.runs[i] ELSE proc.runs[i + 1]] ]
    /\ UNCHANGED <<options, phase, emitted, written, pending, bufVars>>

\* mutant: transform enqueues what there is before the loop has run out of frames
StepReturn_Eager ==
    /\ proc.pc = "cutting"
    /\ emitted' = emitted \o enqueue(options.noEmit, proc.out)
    /\ proc' = [proc EXCEPT !.pc = "idle", !.out = <<>>]
    /\ UNCHANGED <<options, vad, phase, now, events, hist, written, pending,
                   bufVars>>

\* no whole frame is left: processChunk returns, transform enqueues and ends
StepReturn ==
    /\ proc.pc = "cutting"
    /\ BufLen(vad.audioBuffer) < FRAME_SIZE
    /\ emitted' = emitted \o enqueue(options.noEmit, proc.out)
    /\ proc' = [proc EXCEPT !.pc = "idle", !.out = <<>>]
    /\ UNCHANGED <<options, vad, phase, now, events, hist, written, pending,
                   bufVars>>

StepNext == StepWrite \/ StepAccept \/ StepCut \/ StepSettle \/ StepReturn
StepSpec == StepInit /\ [][StepNext]_vars

\* a run long enough for a segment to end and a second one to begin: short
\* durations, one frame per chunk, one frame time per classification
SegmentsChunk ==
    Transform({FRAME_SIZE}, Outcomes, {TickMs}, SegmentFrames, SegmentFrames * TickMs)
SegmentsFlush == FlushBy((SegmentFrames + 1) * TickMs)

\* a segment is confirmed at the second or at the third speech frame
SegmentsOptions ==
    {EngineOptions, [EngineOptions EXCEPT !.minSpeechDurationMs = 96]}

SegmentsInit == \E o \in SegmentsOptions : Started(o)
SegmentsNext == SegmentsChunk \/ SegmentsFlush
SegmentsSpec == SegmentsInit /\ [][SegmentsNext]_vars

\* two speechFilters written the same samples, each split into chunks its own
\* way; the classifier gives a frame the same outcome in both (hist holds the
\* outcomes given so far), each classification taking one frame time
Splits == {1, 2}

SplitInit ==
    /\ options = EngineOptions
    /\ vad = [c \in Splits |-> initialize(Constructed)]
    /\ phase = "open"
    /\ now = [c \in Splits |-> 0]
    /\ emitted = [c \in Splits |-> <<>>]
    /\ events = [c \in Splits |-> <<>>]
    /\ hist = <<>>
    /\ written = [c \in Splits |-> 0]
    /\ pending = <<>>
    /\ proc = NoCall
    /\ BufferUnused

SplitTransform(c) ==
    /\ phase = "open"
    /\ \E len \in ChunkLengths :
         LET k == vad[c].frameIndex
             n == (BufLen(vad[c].audioBuffer) + len) \div FRAME_SIZE
         IN /\ written[c] + len <= MaxFrames * FRAME_SIZE
            /\ \E outs \in [1..n -> Outcomes] :
                 /\ \A j \in 1..n : k + j <= Len(hist) => outs[j] = hist[k + j]
                 /\ \E r \in {processChunk(options, vad[c],
                                            <<written[c], written[c] + len>>,
                                            [j \in 1..n |-> [outcome |-> outs[j],
                                                             dt |-> TickMs]],
                                            now[c])} :
                      /\ vad' = [vad EXCEPT ![c] = r.vad]
                      /\ now' = [now EXCEPT ![c] = r.now]
                      /\ events' = [events EXCEPT ![c] = @ \o r.ev]
                      /\ emitted' = [emitted EXCEPT
                                       ![c] = @ \o enqueue(options.noEmit, r.out)]
                 /\ hist' = [i \in 1..Max(Len(hist), k + n) |->
                               IF i <= Len(hist) THEN hist[i] ELSE outs[i - k]]
            /\ written' = [written EXCEPT ![c] = @ + len]
    /\ UNCHANGED <<options, phase, pending, proc, bufVars>>

\* both streams end, the same samples having been written to both
SplitFlush ==
    /\ phase = "open"
    /\ \A c, d \in Splits : written[c] = written[d]
    /\ \E r \in {[c \in Splits |-> finalize(options, vad[c], now[c])]} :
         /\ vad' = [c \in Splits |-> destroy(r[c].vad)]
         /\ events' = [c \in Splits |-> events[c] \o r[c].ev]
         /\ emitted' = [c \in Splits |->
                          emitted[c] \o enqueue(options.noEmit, r[c].out)]
    /\ phase' = "closed"
    /\ UNCHANGED <<options, now, hist, written, pending, proc, bufVars>>

SplitNext == (\E c \in Splits : SplitTransform(c)) \/ SplitFlush
SplitSpec == SplitInit /\ [][SplitNext]_vars

\* the constructor alone: options as the caller gives them, some left out

\* options.name ?? default
OrDefault(given, name, default) ==
    IF name \in DOMAIN given THEN given[name] ELSE default

\* the option values the constructor works with
WithDefaults(given) ==
    [ threshold |-> OrDefault(given, "threshold", 50),
      minSpeechDurationMs |-> OrDefault(given, "minSpeechDurationMs", 160),
      redemptionDurationMs |-> OrDefault(given, "redemptionDurationMs", 400),
      lookBackDurationMs |-> OrDefault(given, "lookBackDurationMs", 384),
      noEmit |-> OrDefault(given, "noEmit", FALSE) ]

ThresholdInputs == (0 - MaxOutside)..(100 + MaxOutside)
DurationInputs == (0 - FrameMs)..MaxDuration

\* what the caller passes: a threshold only, the three durations only, or
\* nothing but noEmit
ConfigInputs ==
    {[threshold |-> t] : t \in ThresholdInputs}
    \cup {[minSpeechDurationMs |-> d, redemptionDurationMs |-> d,
           lookBackDurationMs |-> d] : d \in DurationInputs}
    \cup {[noEmit |-> FALSE]}

\* the readonly fields the constructor computes
Configured(o) ==
    [ threshold |-> Threshold(o),
      negativeThreshold |-> NegativeThreshold(o),
      minSpeechFrames |-> MinSpeechFrames(o),
      redemptionFrames |-> RedemptionFrames(o),
      lookBackFrames |-> LookBackFrames(o) ]

ConfigInit ==
    /\ \E given \in ConfigInputs : options = WithDefaults(given)
    /\ vad = Constructed
    /\ phase = "new"
    /\ now = 0
    /\ emitted = <<>>
    /\ events = <<>>
    /\ hist = <<>>
    /\ written = 0
    /\ pending = <<>>
    /\ proc = NoCall
    /\ BufferUnused

\* new VADProcessor(options); hist keeps the fields computed
Construct ==
    /\ phase = "new"
    /\ phase' = "constructed"
    /\ hist' = <<Configured(options)>>
    /\ UNCHANGED <<options, vad, now, emitted, events, written, pending, proc,
                   bufVars>>

ConfigNext == Construct
ConfigSpec == ConfigInit /\ [][ConfigNext]_vars

\* speechFilters that differ in their threshold only, one per threshold,
\* written the same frames, the classifier giving each the same probabilities
\* (hist holds these probabilities)
ThresholdChoices == {30, 50}
ThresholdProbabilities == {10, 20, 40, 80}

ThresholdOptionChoices ==
    [ threshold : {50},
      minSpeechDurationMs : {32, 64},
      redemptionDurationMs : {32, 64, 96},
      lookBackDurationMs : {0, 96},
      noEmit : {FALSE} ]

ThresholdInit ==
    /\ options \in ThresholdOptionChoices
    /\ vad = [th \in ThresholdChoices |-> initialize(Constructed)]
    /\ phase = "open"
    /\ now = 0
    /\ emitted = [th \in ThresholdChoices |-> <<>>]
    /\ events = [th \in ThresholdChoices |-> <<>>]
    /\ hist = <<>>
    /\ written = 0
    /\ pending = <<>>
    /\ proc = NoCall
    /\ BufferUnused

ThresholdTransform ==
    /\ phase = "open"
    /\ written < MaxFrames * FRAME_SIZE
    /\ \E p \in ThresholdProbabilities :
         \E r \in {[th \in ThresholdChoices |->
                      processChunk([options EXCEPT !.threshold = th], vad[th],
                                   <<written, written + FRAME_SIZE>>,
                                   <<[outcome |-> [ok |-> TRUE, p |-> p],
                                      dt |-> TickMs]>>,
                                   now)]} :
            /\ vad' = [th \in ThresholdChoices |-> r[th].vad]
            /\ now' = now + TickMs
            /\ events' = [th \in ThresholdChoices |-> events[th] \o r[th].ev]
            /\ emitted' = [th \in ThresholdChoices |->
                             emitted[th] \o enqueue(options.noEmit, r[th].out)]
            /\ hist' = Append(hist, p)
            /\ written' = written + FRAME_SIZE
    /\ UNCHANGED <<options, phase, pending, proc, bufVars>>

ThresholdFlush ==
    /\ phase = "open"
    /\ \E r \in {[th \in ThresholdChoices |->
                    finalize([options EXCEPT !.threshold = th], vad[th], now)]} :
         /\ vad' = [th \in ThresholdChoices |-> destroy(r[th].vad)]
         /\ events' = [th \in ThresholdChoices |-> events[th] \o r[th].ev]
         /\ emitted' = [th \in ThresholdChoices |->
                          emitted[th] \o enqueue(options.noEmit, r[th].out)]
    /\ phase' = "closed"
    /\ UNCHANGED <<options, now, hist, written, pending, proc, bufVars>>

ThresholdNext == ThresholdTransform \/ ThresholdFlush
ThresholdSpec == ThresholdInit /\ [][ThresholdNext]_vars

----------------------------------------------------------------------------
(* Properties of speechFilter *)

\* the probability handleSpeechDetection is given for frame i
Effective(i) == IF hist[i].ok THEN hist[i].p ELSE 0
IsSpeech(i) == Effective(i) >= Threshold(options)
IsNonSpeech(i) == Effective(i) < NegativeThreshold(options)

AllSpeech == \A i \in 1..Len(hist) : IsSpeech(i)
AllNonSpeech == \A i \in 1..Len(hist) : IsNonSpeech(i)

SegmentEvents == {"start", "end", "misfire"}
Starts == {i \in 1..Len(events) : events[i].e = "start"}
Ends == {i \in 1..Len(events) : events[i].e \in {"end", "misfire"}}

NonDecreasing(seq) == \A i, j \in 1..Len(seq) : i < j => seq[i] <= seq[j]
Occurs(x, seq) == \E i \in 1..Len(seq) : seq[i] = x

\* C1: over a whole stream of n >= minSpeechFrames frames that are all at or
\* above the threshold, onSpeechStart fires exactly once (minSpeechFrames = 1
\* included).
C1_ExactlyOneStart ==
    (phase = "closed" /\ AllSpeech /\ Len(hist) >= MinSpeechFrames(options))
        => Cardinality(Starts) = 1

\* the first speech frame of the segment confirmed at frame c: the frame that
\* took the engine from silent to detecting
SegmentFirst(c) ==
    CHOOSE f \in 1..c :
        /\ hist[f].st = "silent"
        /\ \A g \in (f + 1)..c : hist[g].st # "silent"

\* C2: the batch returned at a confirmation is the pre-roll, that is the
\* min(lookbackFrames, k) frames right before the segment's first speech
\* frame (k frames came before it), followed by the segment's speech frames.
C2_PreRollThenSpeech ==
    \A i \in Starts :
        LET c == events[i].at
            f == SegmentFirst(c)
            n == Min(LookBackFrames(options), f - 1)
        IN hist[c].out = Frames(f - n, f - 1) \o SelectSeq(Frames(f, c), IsSpeech)

\* C3: threshold 0.5, default durations, ten frames at 0.8: onSpeechStart
\* fires exactly once, while frame 5 is processed, and each of the frames
\* 1..10 is enqueued, in input order, none missing.
C3_TenFrameScenario ==
    (Len(hist) = 10 /\ \A i \in 1..10 : hist[i].ok /\ hist[i].p = 80)
        => /\ Cardinality(Starts) = 1
           /\ \A i \in Starts : events[i].at = 5
           /\ \A f \in 1..10 : Occurs(f, emitted)
           /\ \A i \in 1..Len(emitted) : emitted[i] \in 1..10
           /\ NonDecreasing(emitted)

C3_Witness ==
    /\ phase = "closed"
    /\ Len(hist) = 10
    /\ \A i \in 1..10 : hist[i].ok /\ hist[i].p = 80
    /\ Len(emitted) >= 10

\* C4: while every frame is below negativeThreshold no onSpeechStart,
\* onSpeechEnd or onMisfire fires and nothing is enqueued, flush included.
C4_SilenceStaysSilent ==
    AllNonSpeech
        => /\ \A i \in 1..Len(events) : events[i].e \notin SegmentEvents
           /\ emitted = <<>>

C4_Witness ==
    /\ phase = "closed"
    /\ AllNonSpeech
    /\ Len(hist) >= 3
    /\ \E i \in 1..Len(hist) : ~hist[i].ok

\* C5: every confirmed segment that has ended fired exactly one of onMisfire /
\* onSpeechEnd, and it is onMisfire exactly when the clock advanced by less
\* than minSpeechFrames * 32 ms between the confirmation and the end.
C5_MisfireOrEnd ==
    /\ Cardinality(Starts) = Cardinality(Ends)
          + (IF vad.vadState \in {"speaking", "intermediate"} THEN 1 ELSE 0)
    /\ \A i \in Ends :
         /\ i > 1
         /\ events[i - 1].e \in {"start", "error"}
         /\ \E j \in Starts :
              /\ j < i
              /\ \A k \in (j + 1)..(i - 1) : events[k].e = "error"
              /\ (events[i].e = "misfire")
                    <=> (events[i].t - events[j].t < MinSpeechFrames(options) * FrameMs)

C5_Witness ==
    /\ \E i \in Ends : events[i].e = "misfire" /\ events[i].at > 0
    /\ phase = "open"
    /\ MinSpeechFrames(options) = 2
    /\ now = 2 * TickMs

\* C11: with noEmit set speechFilter enqueues nothing, and it fires the same
\* onSpeechStart / onSpeechEnd / onMisfire / onError callbacks, in the same
\* order, as a speechFilter without noEmit fed the same chunks with the same
\* classifier outcomes.
C11_NoEmitSameEvents ==
    /\ emitted[TRUE] = <<>>
    /\ events[TRUE] = events[FALSE]

\* a segment was started, passed downstream and ended, with a classifier failure
C11_Witness ==
    /\ phase = "closed"
    /\ emitted[FALSE] # <<>>
    /\ \E i, j, k \in 1..Len(events[TRUE]) :
         /\ i < j
         /\ events[TRUE][i].e = "start"
         /\ events[TRUE][j].e \in {"end", "misfire"}
         /\ events[TRUE][k].e = "error"

\* the onError callbacks fired for frame i
ErrorsAt(i) == {k \in 1..Len(events) : events[k].e = "error" /\ events[k].at = i}

\* the states a frame of the given class may leave the engine in
Targets(st, class) ==
    CASE st = "silent" -> IF class = "speech" THEN {"detecting"} ELSE {"silent"}
      [] st = "detecting" -> IF class = "speech" THEN {"detecting", "speaking"}
                             ELSE IF class = "non-speech" THEN {"silent"}
                             ELSE {"detecting"}
      [] st = "speaking" -> IF class = "speech" THEN {"speaking"}
                            ELSE {"intermediate"}
      [] st = "intermediate" -> IF class = "speech" THEN {"speaking"}
                                ELSE {"intermediate", "silent"}

\* C12: a frame whose classifier call fails gets exactly one onError (and a
\* frame whose call succeeds none), is handled as a non-speech frame of
\* probability 0 within processChunk, which goes on to the next frame; every
\* frame, before or after a failure, moves the state machine as its own
\* probability says, the classifier still being set up while the stream is open.
C12_FailureIsOneErrorAndZero ==
    /\ \A i \in 1..Len(hist) :
         /\ Cardinality(ErrorsAt(i)) = IF hist[i].ok THEN 0 ELSE 1
         /\ hist[i].to \in Targets(hist[i].st, classifySpeechState(options, Effective(i)))
         /\ ~hist[i].ok =>
              /\ hist[i].to \in Targets(hist[i].st, "non-speech")
              /\ \A k \in 1..Len(events) :
                   events[k].at = i => events[k].e \in {"error", "end", "misfire"}
    /\ \A k \in 1..Len(events) :
         events[k].e = "error" => events[k].at \in 1..Len(hist)
    /\ phase = "open" => vad.session /\ vad.state # NullState
    /\ Len(hist) = vad.frameIndex

\* a failure in the middle of a segment, and the next frame resumes the segment
C12_Witness ==
    \E i \in 1..Len(hist) :
        /\ ~hist[i].ok
        /\ hist[i].st = "speaking"
        /\ hist[i].to = "intermediate"
        /\ i < Len(hist)
        /\ hist[i + 1].ok
        /\ hist[i + 1].to = "speaking"
        /\ hist[i + 1].out = <<i + 1>>

\* a VADProcessor right after construction and initialize(), field by field
Fresh ==
    [ session |-> TRUE,
      state |-> ZeroState,
      context |-> ZeroContext,
      audioBuffer |-> EmptyArray,
      speechBuffer |-> <<>>,
      lookBackBuffer |-> <<>>,
      vadState |-> "silent",
      speechFrameCount |-> 0,
      redemptionCounter |-> 0,
      speechStartTime |-> 0,
      frameIndex |-> 0 ]

\* C13: whatever frames were processed, destroy followed by initialize leaves
\* the engine as construction followed by initialize does: context zeroed,
\* model state zero, vadState silent, the counters 0, the sample, speech and
\* lookback buffers empty.
C13_DestroyInitializeIsFresh ==
    [][ (phase = "destroyed" /\ phase' = "open")
          => vad' = Fresh /\ vad' = initialize(Constructed) ]_vars

\* the engine was destroyed in mid-segment, samples and frames pending, and
\* initialised again
C13_Witness ==
    /\ phase = "open"
    /\ vad = Fresh
    /\ hist # <<>>
    /\ hist[Len(hist)].to = "speaking"
    /\ written > Len(hist) * FRAME_SIZE

\* the i-th 512-sample window of the samples written
Window(i) == <<(i - 1) * FRAME_SIZE, i * FRAME_SIZE>>

\* C14: after every processChunk the frames cut so far are, in order, the
\* consecutive 512-sample windows of the samples written so far, the samples
\* left over are the rest of them and fewer than 512; a chunk of no samples
\* changes nothing.
C14_FramesThenLeftoverIsInput ==
    /\ [](phase = "open" =>
            /\ \A i \in 1..Len(hist) : hist[i].cut = Window(i)
            /\ vad.audioBuffer = SliceFrom(<<0, written>>, Len(hist) * FRAME_SIZE)
            /\ Len(hist) * FRAME_SIZE + BufLen(vad.audioBuffer) = written
            /\ BufLen(vad.audioBuffer) < FRAME_SIZE)
    /\ [][ (phase' = "open" /\ written' = written)
              => UNCHANGED <<vad, hist, emitted, events, now>> ]_vars

\* chunks of half a frame, one frame and two frames were written: four frames
\* were cut and half a frame is left over
C14_Witness ==
    /\ phase = "open"
    /\ Len(hist) = 4
    /\ written = 4 * FRAME_SIZE + 256
    /\ vad.audioBuffer = <<4 * FRAME_SIZE, written>>

\* C15: whatever the sizes of the chunks written, every chunk enqueued
\* downstream is one analysis frame: a frame that was cut, of 512 samples, all
\* of them samples of the input at the frame's place.
C15_EmitsWholeInputFrames ==
    \A k \in 1..Len(emitted) :
        /\ emitted[k] \in 1..Len(hist)
        /\ hist[emitted[k]].cut = Window(emitted[k])
        /\ BufLen(hist[emitted[k]].cut) = FRAME_SIZE
        /\ emitted[k] * FRAME_SIZE <= written

\* frames were emitted from input that came in chunks of half a frame and more
C15_Witness ==
    /\ phase = "closed"
    /\ written = 3 * FRAME_SIZE + 256
    /\ Occurs(2, emitted)
    /\ Occurs(3, emitted)

\* C20: at most one classifier call is in flight and none outlasts its
\* transform call; frames are handled by the state machine in the order of
\* the input; transform is called for the next chunk, and the classifier for
\* the next frame, only when no classification is pending and every frame cut
\* before has had its state update.
C20_OneFrameAtATime ==
    /\ [](/\ Len(proc.runs) <= 1
          /\ proc.pc = "idle" => proc.runs = <<>>
          /\ \A i \in 1..Len(hist) : hist[i].cut = Window(i)
          /\ vad.frameIndex = Len(hist))
    /\ [][ /\ Len(pending') < Len(pending)
               => proc.pc = "idle" /\ proc.runs = <<>>
           /\ Len(proc'.runs) > Len(proc.runs)
               => /\ proc.runs = <<>>
                  /\ proc'.runs[1].cut = Window(Len(hist) + 1) ]_vars

\* a classification is in flight while a whole frame waits in the buffer and
\* two chunks wait in the stream
C20_Witness ==
    /\ proc.pc = "awaiting"
    /\ Len(proc.runs) = 1
    /\ Len(hist) >= 1
    /\ BufLen(vad.audioBuffer) >= FRAME_SIZE
    /\ Len(pending) = 2

\* C21: of two speechFilters alike but for the threshold and given the same
\* probabilities frame by frame, the one with the lower threshold has emitted
\* at least as many frames as the one with the higher threshold.
C21_LowerThresholdEmitsNoLess ==
    \A lo, hi \in ThresholdChoices :
        lo < hi => Len(emitted[lo]) >= Len(emitted[hi])

\* C22: no input frame is held in both the lookback buffer and the speech
\* buffer, and no input frame is enqueued downstream more than once.
C22_LookbackDisjointFromSpeech ==
    /\ \A i \in 1..Len(vad.lookBackBuffer) :
         ~Occurs(vad.lookBackBuffer[i], vad.speechBuffer)
    /\ \A i, j \in 1..Len(emitted) : i < j => emitted[i] # emitted[j]

\* C23: every frame processed while a segment is confirmed (the engine
\* speaking or intermediate when the frame comes) is enqueued downstream, the
\* frames of the redemption period included: no gap inside a segment.
C23_NoDropoutInSegment ==
    \A i \in 1..Len(hist) :
        hist[i].st \in {"speaking", "intermediate"}
            => hist[i].out = <<i>> /\ Occurs(i, emitted)

\* C24: a flush that finds the engine speaking or intermediate fires exactly
\* one callback, onSpeechEnd if the segment has lasted minSpeechFrames frame
\* times and onMisfire if not (the test of a normal end), leaves the state
\* silent with both counters 0, enqueues no frame and leaves the sample, speech
\* and lookback buffers empty.
C24_FlushEndsSegment ==
    [][ (phase = "open" /\ phase' = "closed"
           /\ vad.vadState \in {"speaking", "intermediate"})
          => /\ events' = Append(events,
                  Event(IF now' - vad.speechStartTime >= MinSpeechFrames(options) * FrameMs
                        THEN "end" ELSE "misfire", 0, now'))
             /\ emitted' = emitted
             /\ vad'.vadState = "silent"
             /\ vad'.speechFrameCount = 0
             /\ vad'.redemptionCounter = 0
             /\ vad'.audioBuffer = EmptyArray
             /\ vad'.speechBuffer = <<>>
             /\ vad'.lookBackBuffer = <<>> ]_vars

\* the stream ended in the redemption period of a segment too short to count
C24_Witness ==
    /\ phase = "closed"
    /\ hist # <<>>
    /\ hist[Len(hist)].to = "intermediate"
    /\ events # <<>>
    /\ events[Len(events)] = Event("misfire", 0, now)
    /\ vad.vadState = "silent"

\* the onSpeechStart that opened the segment events[k] closes
StartOf(k) ==
    CHOOSE j \in 1..k :
        /\ events[j].e = "start"
        /\ \A i \in (j + 1)..k : events[i].e # "start"

\* the last frame of the segment events[k] closes (a flush closes it at 0)
LastOf(k) == IF events[k].at = 0 THEN Len(hist) ELSE events[k].at

\* C25: of a segment that ends in a misfire, no frame, from the one that
\* confirmed it to the one that ended it, has been enqueued downstream.
C25_MisfireDeliversNothing ==
    \A k \in 1..Len(events) :
        events[k].e = "misfire"
            => \A f \in events[StartOf(k)].at..LastOf(k) : ~Occurs(f, emitted)

\* the frame at which the detection that frame f belongs to began
DetectionStart(f) ==
    CHOOSE d \in 1..f :
        /\ hist[d].st = "silent" /\ hist[d].to = "detecting"
        /\ \A i \in (d + 1)..f : ~(hist[i].st = "silent" /\ hist[i].to = "detecting")

\* the probability the frame a one-frame step has just handled was given
LastProbability == IF hist'[Len(hist')].ok THEN hist'[Len(hist')].p ELSE 0

\* a step that handles exactly one frame, the engine detecting when it comes
DetectingStep ==
    /\ phase' = "open"
    /\ Len(hist') = Len(hist) + 1
    /\ vad.vadState = "detecting"

Cancelled ==
    /\ vad'.vadState = "silent"
    /\ vad'.speechFrameCount = 0
    /\ vad'.speechBuffer = <<>>

\* C26 as stated: in detecting, an intermediate frame, like a non-speech one,
\* puts the engine back to silent and empties the accumulator; so a segment is
\* confirmed only at the end of minSpeechFrames or more consecutive speech
\* frames.
C26_IntermediateCancelsDetection ==
    /\ [][ (DetectingStep /\ LastProbability < Threshold(options)) => Cancelled ]_vars
    /\ [](\A k \in 1..Len(events) :
            events[k].e = "start" =>
                LET f == events[k].at IN
                /\ f - DetectionStart(f) + 1 >= MinSpeechFrames(options)
                /\ \A i \in DetectionStart(f)..f : IsSpeech(i))

\* C26 as amended: in detecting, a non-speech frame puts the engine back to
\* silent and empties the accumulator, while an intermediate frame changes
\* nothing (state, count and accumulator stay, the frame is not accumulated);
\* so a segment is confirmed at a speech frame, after minSpeechFrames or more
\* speech frames among which intermediate frames, but no non-speech frame, may
\* have come.
C26_OnlyNonSpeechCancelsDetection ==
    /\ [][ DetectingStep =>
             /\ LastProbability < NegativeThreshold(options) => Cancelled
             /\ (LastProbability >= NegativeThreshold(options)
                   /\ LastProbability < Threshold(options))
                  => /\ vad'.vadState = "detecting"
                     /\ vad'.speechFrameCount = vad.speechFrameCount
                     /\ vad'.speechBuffer = vad.speechBuffer
                     /\ emitted' = emitted /\ events' = events ]_vars
    /\ [](\A k \in 1..Len(events) :
            events[k].e = "start" =>
                LET f == events[k].at IN
                /\ IsSpeech(f)
                /\ Cardinality({i \in DetectionStart(f)..f : IsSpeech(i)})
                     >= MinSpeechFrames(options)
                /\ \A i \in DetectionStart(f)..f : ~IsNonSpeech(i))

\* a segment confirmed by two speech frames with an intermediate frame between
C26_Witness ==
    /\ Len(hist) >= 3
    /\ IsSpeech(1) /\ ~IsSpeech(2) /\ ~IsNonSpeech(2) /\ IsSpeech(3)
    /\ hist[2].st = "detecting" /\ hist[2].to = "detecting"
    /\ \E k \in 1..Len(events) : events[k] = Event("start", 3, events[k].t)
    /\ Occurs(1, emitted) /\ ~Occurs(2, emitted) /\ Occurs(3, emitted)

\* a step of an open stream that handles exactly one frame
OneFrameStep == phase' = "open" /\ Len(hist') = Len(hist) + 1

Succeeded == {i \in 1..Len(hist) : hist[i].ok}

\* C29: after every classification attempt of an initialised engine, failed
\* or not, the context buffer has 64 samples, the last 64 of the frame just
\* handled; the model state is the one the classifier returned for the last
\* frame that succeeded (the zero state if none has): a success replaces it, a
\* failure leaves it.
C29_ContextFollowsEveryAttempt ==
    (phase = "open" /\ Len(hist) > 0) =>
        LET cut == hist[Len(hist)].cut IN
        /\ BufLen(vad.context) = CONTEXT_SIZE
        /\ vad.context[2] = cut[2]
        /\ vad.context[1] >= cut[1]
        /\ vad.state = IF Succeeded = {} THEN ZeroState
                       ELSE NextState(CHOOSE i \in Succeeded :
                                          \A j \in Succeeded : j <= i)

\* a success, then a failure: the context is the end of the failed frame, the
\* model state still the one the first frame returned
C29_Witness ==
    /\ phase = "open"
    /\ Len(hist) = 2
    /\ hist[1].ok /\ ~hist[2].ok
    /\ vad.state = NextState(1)
    /\ vad.context = <<2 * FRAME_SIZE - CONTEXT_SIZE, 2 * FRAME_SIZE>>

\* the frames pushed on the lookback buffer since it was last emptied: those
\* cut while the engine was silent, after the last confirmation of a segment
Pushed ==
    {i \in 1..Len(hist) :
        /\ hist[i].st = "silent"
        /\ \A j \in i..Len(hist) : ~(hist[j].st = "detecting" /\ hist[j].to = "speaking")}

\* C30: the lookback buffer never holds more than lookBackFrames frames; it
\* holds the newest of the frames pushed, oldest first, the older ones having
\* been evicted; with lookBackFrames 0 it is always empty.
C30_LookbackBoundedFifo ==
    /\ Len(vad.lookBackBuffer) <= LookBackFrames(options)
    /\ LookBackFrames(options) = 0 => vad.lookBackBuffer = <<>>
    /\ phase = "open" =>
         /\ \A k \in 1..(Len(vad.lookBackBuffer) - 1) :
              vad.lookBackBuffer[k] < vad.lookBackBuffer[k + 1]
         /\ {vad.lookBackBuffer[k] : k \in 1..Len(vad.lookBackBuffer)}
              = IF LookBackFrames(options) = 0 THEN {}
                ELSE {i \in Pushed :
                        Cardinality({j \in Pushed : j > i}) < LookBackFrames(options)}

\* three silent frames with room for two: frame 1 has been evicted
C30_Witness ==
    /\ phase = "open"
    /\ LookBackFrames(options) = 2
    /\ Len(hist) = 3
    /\ vad.vadState = "silent"
    /\ vad.lookBackBuffer = <<2, 3>>

\* buffer after frame f has been pushed on it, room being for n frames
PushedOn(buffer, f, n) ==
    IF n = 0 THEN buffer
    ELSE IF Len(buffer) + 1 > n THEN Tail(Append(buffer, f)) ELSE Append(buffer, f)

\* C31: a frame is added to the lookback buffer only if the engine is silent
\* when the frame arrives; the buffer is handed out once, at the confirmation
\* of a segment, and emptied there, so it is empty whenever the engine is
\* speaking or intermediate, and a frame met in detecting that does not
\* confirm leaves it as it was.
C31_LookbackFilledInSilenceOnly ==
    /\ [](\A th \in ThresholdChoices :
            vad[th].vadState \in {"speaking", "intermediate"}
                => vad[th].lookBackBuffer = <<>>)
    /\ [][ OneFrameStep =>
            \A th \in ThresholdChoices :
                LET f == Len(hist')
                    v == vad[th]
                    w == vad'[th]
                    out == SubSeq(emitted'[th], Len(emitted[th]) + 1, Len(emitted'[th]))
                IN /\ v.vadState = "silent"
                        => w.lookBackBuffer
                             = PushedOn(v.lookBackBuffer, f, LookBackFrames(options))
                   /\ (v.vadState = "detecting" /\ w.vadState # "speaking")
                        => w.lookBackBuffer = v.lookBackBuffer
                   /\ (v.vadState = "detecting" /\ w.vadState = "speaking")
                        => /\ w.lookBackBuffer = <<>>
                           /\ Len(out) >= Len(v.lookBackBuffer)
                           /\ SubSeq(out, 1, Len(v.lookBackBuffer)) = v.lookBackBuffer
                           /\ \A i \in 1..Len(v.lookBackBuffer) :
                                Cardinality({k \in 1..Len(v.lookBackBuffer) :
                                                out[k] = v.lookBackBuffer[i]}) = 1
                   /\ v.vadState \in {"speaking", "intermediate"}
                        => w.lookBackBuffer = <<>> ]_vars

\* two frames kept in silence are handed out at the confirmation, before the
\* accumulator, and the buffer is empty in speaking
C31_Witness ==
    \E th \in ThresholdChoices :
        /\ phase = "open"
        /\ Len(hist) = 3
        /\ vad[th].vadState = "speaking"
        /\ vad[th].lookBackBuffer = <<>>
        /\ emitted[th] = <<1, 2, 2, 3>>

\* C32: whatever threshold is given, within 0..1 or not, the threshold used is
\* within 0.01..0.99 and the negative threshold within 0.01..threshold - 0.01:
\* it is below the threshold, and the intermediate band is not empty.
C32_NegativeThresholdBelowThreshold ==
    phase = "constructed" =>
        /\ hist[1].threshold >= 1 /\ hist[1].threshold <= 99
        /\ hist[1].negativeThreshold >= 1
        /\ hist[1].negativeThreshold <= hist[1].threshold - 1

\* n is d / 32 rounded to the nearest integer, halves upwards
IsRounded(n, d) ==
    /\ 2 * FrameMs * n - FrameMs <= 2 * d
    /\ 2 * d < 2 * FrameMs * n + FrameMs

\* n is the larger of least and d / 32 rounded
IsFrames(n, d, least) ==
    /\ n >= least
    /\ n > least => IsRounded(n, d)
    /\ n = least => \E k \in (0 - 2)..least : IsRounded(k, d)

EndsAt(th, f) ==
    \E k \in 1..Len(events[th]) :
        events[th][k].e \in {"end", "misfire"} /\ events[th][k].at = f

\* frame g belongs to a confirmed segment of threshold th's engine
InSegment(th, g) ==
    \E k \in 1..Len(events[th]) :
        /\ events[th][k].e = "start"
        /\ events[th][k].at <= g
        /\ \A f \in events[th][k].at..g : ~EndsAt(th, f)

\* frame f is the n-th of n frames below the threshold that follow a speech
\* frame
QuietRun(th, f, n) ==
    /\ f - n >= 1
    /\ hist[f - n] >= th
    /\ \A i \in (f - n + 1)..f : hist[i] < th

\* C34: whatever redemptionFrames is, 1 included, a confirmed segment ends at
\* the redemptionFrames-th consecutive frame below the threshold after its
\* last speech frame, no earlier and no later.
C34_EndsAtRedemptionFrames ==
    \A th \in ThresholdChoices : \A f \in 1..Len(hist) :
        /\ EndsAt(th, f) => QuietRun(th, f, RedemptionFrames(options))
        /\ (QuietRun(th, f, RedemptionFrames(options))
             /\ InSegment(th, f - RedemptionFrames(options)))
            => EndsAt(th, f)

IsSegmentEvent(e) == e.e \in SegmentEvents

\* the onSpeechStart / onSpeechEnd / onMisfire callbacks in the order fired
SegmentSeq == SelectSeq(events, IsSegmentEvent)

\* C35: the segment callbacks alternate, an onSpeechStart first, then one
\* onSpeechEnd or onMisfire, then an onSpeechStart again; once the stream has
\* ended, flush included, every start has had its end or misfire, so there are
\* as many starts as ends and misfires together.
C35_SegmentEventsAlternate ==
    /\ \A i \in 1..Len(SegmentSeq) : (SegmentSeq[i].e = "start") <=> (i % 2 = 1)
    /\ phase = "closed" =>
         /\ Len(SegmentSeq) % 2 = 0
         /\ Cardinality(Starts) = Cardinality(Ends)

\* two segments: the first ended by its redemption, the second by the flush
C35_Witness ==
    /\ phase = "closed"
    /\ Len(SegmentSeq) = 4
    /\ SegmentSeq[2].at > 0
    /\ SegmentSeq[3].e = "start"
    /\ SegmentSeq[4].at = 0

\* C36: after every frame processed the counters agree with the state:
\* silent has both counters 0 and no accumulator; detecting has an accumulator
\* of speechFrameCount >= 1 frames; speaking has redemptionCounter 0 and no
\* accumulator; intermediate has redemptionCounter >= 1 and no accumulator.
C36_CountersAgreeWithState ==
    phase = "open" =>
        /\ vad.vadState = "silent" =>
              /\ vad.speechFrameCount = 0
              /\ vad.redemptionCounter = 0
              /\ vad.speechBuffer = <<>>
        /\ vad.vadState = "detecting" =>
              /\ vad.speechFrameCount >= 1
              /\ Len(vad.speechBuffer) = vad.speechFrameCount
        /\ vad.vadState = "speaking" =>
              /\ vad.redemptionCounter = 0
              /\ vad.speechBuffer = <<>>
        /\ vad.vadState = "intermediate" =>
              /\ vad.redemptionCounter >= 1
              /\ vad.speechBuffer = <<>>

\* a segment has come and gone, and two speech frames of the next candidate
\* are in the accumulator
C36_Witness ==
    /\ phase = "open"
    /\ Ends # {}
    /\ vad.vadState = "detecting"
    /\ vad.speechFrameCount = 2
    /\ vad.speechBuffer = <<6, 7>>

\* C37: when the stream ends with the engine detecting, the flush fires no
\* callback and enqueues nothing: the candidate gets no onSpeechStart,
\* onSpeechEnd or onMisfire and none of its frames is ever emitted, and the
\* samples of a last, incomplete frame are neither classified nor emitted.
C37_FlushDropsCandidate ==
    /\ [][ (phase = "open" /\ phase' = "closed" /\ vad.vadState = "detecting")
            => /\ events' = events
               /\ emitted' = emitted
               /\ hist' = hist ]_vars
    /\ []((phase = "closed" /\ vad.vadState = "detecting")
            => /\ \A i \in DetectionStart(Len(hist))..Len(hist) :
                    /\ ~Occurs(i, emitted)
                    /\ \A k \in 1..Len(events) :
                         events[k].at = i => events[k].e = "error"
               /\ \A k \in 1..Len(events) : events[k].at # 0
               /\ Len(hist) = written \div FRAME_SIZE
               /\ \A k \in 1..Len(emitted) : emitted[k] <= Len(hist))

\* the stream ended on a candidate of one frame followed by half a frame
C37_Witness ==
    /\ phase = "closed"
    /\ vad.vadState = "detecting"
    /\ Len(hist) = 2
    /\ hist[2].st = "silent" /\ hist[2].to = "detecting"
    /\ written = 2 * FRAME_SIZE + 256

\* the frames at which split c's onSpeechStart fired, in order
StartFrames(c) ==
    LET IsStart(e) == e.e = "start"
        starts == SelectSeq(events[c], IsStart)
    IN [i \in 1..Len(starts) |-> starts[i].at]

IsPrefix(s, t) == Len(s) <= Len(t) /\ SubSeq(t, 1, Len(s)) = s

\* C38: the same samples with the same classifier outcome for every frame
\* give the same frames downstream and the same onSpeechStart callbacks, at
\* the same frames, however the samples are split into chunks: of two splits,
\* the one that has got less far has emitted a prefix of what the other has,
\* and once both streams have ended they have emitted the same.
C38_ChunkingIndependence ==
    \A c, d \in Splits :
        /\ vad[c].frameIndex <= vad[d].frameIndex =>
              /\ IsPrefix(emitted[c], emitted[d])
              /\ IsPrefix(StartFrames(c), StartFrames(d))
        /\ phase = "closed" =>
              /\ emitted[c] = emitted[d]
              /\ StartFrames(c) = StartFrames(d)

\* three frames each and a segment under way, one split half a frame ahead
C38_Witness ==
    /\ phase = "open"
    /\ vad[1].frameIndex = 3 /\ vad[2].frameIndex = 3
    /\ written[1] = 3 * FRAME_SIZE + 256
    /\ written[2] = 3 * FRAME_SIZE
    /\ StartFrames(1) = <<2>>
    /\ emitted[2] = <<1, 1, 2, 3>>

\* what the frames 1..n have handed back, in order
RECURSIVE OutUpTo(_)
OutUpTo(n) == IF n = 0 THEN <<>> ELSE OutUpTo(n - 1) \o hist[n].out

\* C40: the frames of a chunk are enqueued only when every frame of the chunk
\* has been classified and handled, so after every callback those frames
\* cause; what is enqueued is what the frames handled have handed back, and
\* a confirmation batch is enqueued with its onSpeechStart already fired.
C40_CallbacksBeforeEnqueue ==
    /\ [][ emitted' # emitted =>
             /\ events' = events
             /\ proc.runs = <<>>
             /\ Len(hist) = written \div FRAME_SIZE
             /\ emitted' = OutUpTo(Len(hist)) ]_vars
    /\ [](/\ IsPrefix(emitted, OutUpTo(Len(hist)))
           /\ \A i \in 1..Len(hist) :
                (hist[i].st = "detecting" /\ hist[i].to = "speaking")
                    => \E k \in Starts : events[k].at = i)

\* four frames written and handled, a segment begun, its frame 3 enqueued and
\* frame 4 opening the redemption; no transform call is under way
C40_Witness ==
    /\ proc.pc = "idle"
    /\ Len(hist) = 4
    /\ written = 4 * FRAME_SIZE
    /\ hist[3].out = <<3>>
    /\ hist[4].st = "speaking" /\ hist[4].to = "intermediate"
    /\ Occurs(3, emitted)
    /\ Cardinality(Starts) = 1

----------------------------------------------------------------------------
(* bufferSpeech *)

\* const durationMs / maxBufferMs: the options are modelled in milliseconds
DurationMs(o) == o.durationMs
MaxBufferMs(o) == o.maxBufferMs

\* the closure variables of one bufferSpeech call, and the timers it has
\* pending in the event loop
NewBuffer ==
    [ buffer |-> <<>>,
      pauseTimer |-> NoTimer,
      bufferStartTime |-> NullTime,
      chunkCount |-> 0,
      timers |-> {} ]

\* JavaScript truthiness of a number | null
Truthy(x) == x # NullTime /\ x # 0

\* a timer is named by the time it is due: the handle setTimeout(fn, ms) returns
setTimeout(ms, t) == t + ms

\* pauseTimer = setTimeout(...): the timer is pending from now on
Armed(b, id) == [b EXCEPT !.pauseTimer = id, !.timers = @ \cup {id}]

\* if (pauseTimer) clearTimeout(pauseTimer)
clearTimeout(b) ==
    IF b.pauseTimer # NoTimer THEN [b EXCEPT !.timers = @ \ {b.pauseTimer}] ELSE b

Call(e, t, items) == [e |-> e, t |-> t, items |-> items]

\* mutant: a release calls back and enqueues whether or not anything is buffered
releaseBuffer_Unconditional(noEmit, b, t) ==
    [ pb |-> [clearTimeout(b) EXCEPT !.buffer = <<>>,
                                     !.bufferStartTime = NullTime,
                                     !.chunkCount = 0,
                                     !.pauseTimer = NoTimer],
      cb |-> <<Call("buffered", t, b.buffer)>>,
      out |-> IF ~noEmit THEN <<[t |-> t, items |-> b.buffer]>> ELSE <<>> ]

\* mutant: a release leaves the items in the buffer
releaseBuffer_KeepBuffer(noEmit, b, t) ==
    LET full == Len(b.buffer) > 0 IN
    [ pb |-> [clearTimeout(b) EXCEPT !.pauseTimer = NoTimer],
      cb |-> IF full THEN <<Call("buffered", t, b.buffer)>> ELSE <<>>,
      out |-> IF full /\ ~noEmit THEN <<[t |-> t, items |-> b.buffer]>> ELSE <<>> ]

\* mutant: a release leaves the pending timer armed
releaseBuffer_KeepTimer(noEmit, b, t) ==
    LET full == Len(b.buffer) > 0 IN
    [ pb |-> IF full
             THEN [b EXCEPT !.buffer = <<>>,
                            !.bufferStartTime = NullTime,
                            !.chunkCount = 0]
             ELSE b,
      cb |-> IF full THEN <<Call("buffered", t, b.buffer)>> ELSE <<>>,
      out |-> IF full /\ ~noEmit THEN <<[t |-> t, items |-> b.buffer]>> ELSE <<>> ]

\* mutant: onBuffered is invoked only on the branch that enqueues
releaseBuffer_CallbackWithEmit(noEmit, b, t) ==
    LET full == Len(b.buffer) > 0
        b1 == IF full
              THEN [b EXCEPT !.buffer = <<>>,
                             !.bufferStartTime = NullTime,
                             !.chunkCount = 0]
              ELSE b
    IN [ pb |-> [clearTimeout(b1) EXCEPT !.pauseTimer = NoTimer],
         cb |-> IF full /\ ~noEmit THEN <<Call("buffered", t, b.buffer)>> ELSE <<>>,
         out |-> IF full /\ ~noEmit THEN <<[t |-> t, items |-> b.buffer]>> ELSE <<>> ]

\* mutant: a release leaves the start timestamp of the buffer released
releaseBuffer_KeepStartTime(noEmit, b, t) ==
    LET full == Len(b.buffer) > 0
        b1 == IF full
              THEN [b EXCEPT !.buffer = <<>>,
                             !.chunkCount = 0]
              ELSE b
    IN [ pb |-> [clearTimeout(b1) EXCEPT !.pauseTimer = NoTimer],
         cb |-> IF full THEN <<Call("buffered", t, b.buffer)>> ELSE <<>>,
         out |-> IF full /\ ~noEmit THEN <<[t |-> t, items |-> b.buffer]>> ELSE <<>> ]

releaseBuffer(noEmit, b, t) ==
    LET full == Len(b.buffer) > 0
        b1 == IF full
              THEN [b EXCEPT !.buffer = <<>>,
                             !.bufferStartTime = NullTime,
                             !.chunkCount = 0]
              ELSE b
    IN [ pb |-> [clearTimeout(b1) EXCEPT !.pauseTimer = NoTimer],
         cb |-> IF full THEN <<Call("buffered", t, b.buffer)>> ELSE <<>>,
         out |-> IF full /\ ~noEmit THEN <<[t |-> t, items |-> b.buffer]>> ELSE <<>> ]

\* releaseBuffer on a stream that has been aborted: controller.enqueue throws,
\* which ends the call there, after onBuffered and before anything is cleared
releaseBufferErrored(noEmit, b, t) ==
    IF Len(b.buffer) > 0 /\ ~noEmit
    THEN [pb |-> b, cb |-> <<Call("buffered", t, b.buffer)>>, out |-> <<>>]
    ELSE releaseBuffer(noEmit, b, t)

\* mutant: the overflow error already fires at exactly maxBufferMs
checkBufferOverflow_AtLimit(o, b, t) ==
    IF Truthy(b.bufferStartTime) /\ t - b.bufferStartTime >= MaxBufferMs(o)
    THEN <<Call("error", t, b.buffer)>>
    ELSE <<>>

\* handleError is reached only from here
checkBufferOverflow(o, b, t) ==
    IF Truthy(b.bufferStartTime) /\ t - b.bufferStartTime > MaxBufferMs(o)
    THEN <<Call("error", t, b.buffer)>>
    ELSE <<>>

\* mutant: a pending timer is left to run instead of being replaced
transform_NoRearm(o, b, chunk, t) ==
    LET b1 == IF b.bufferStartTime = NullTime
              THEN [b EXCEPT !.bufferStartTime = t]
              ELSE b
        b2 == [b1 EXCEPT !.buffer = Append(@, chunk), !.chunkCount = @ + 1]
    IN [ pb |-> IF b.pauseTimer # NoTimer THEN b2
                ELSE Armed(b2, setTimeout(DurationMs(o), t)),
         cb |-> checkBufferOverflow(o, b2, t),
         out |-> <<>> ]

\* mutant: the new timer is armed without the old one being cleared
transform_NoClear(o, b, chunk, t) ==
    LET b1 == IF b.bufferStartTime = NullTime
              THEN [b EXCEPT !.bufferStartTime = t]
              ELSE b
        b2 == [b1 EXCEPT !.buffer = Append(@, chunk), !.chunkCount = @ + 1]
    IN [ pb |-> Armed(b2, setTimeout(DurationMs(o), t)),
         cb |-> checkBufferOverflow(o, b2, t),
         out |-> <<>> ]

\* mutant: an overflowing buffer is dropped and started afresh
transform_ClearOnOverflow(o, b, chunk, t) ==
    LET b1 == IF b.bufferStartTime = NullTime
              THEN [b EXCEPT !.bufferStartTime = t]
              ELSE b
        b2 == [b1 EXCEPT !.buffer = Append(@, chunk), !.chunkCount = @ + 1]
        cb == checkBufferOverflow(o, b2, t)
        b3 == IF cb = <<>> THEN b2
              ELSE [b2 EXCEPT !.buffer = <<chunk>>,
                              !.chunkCount = 1,
                              !.bufferStartTime = t]
    IN [ pb |-> Armed(clearTimeout(b3), setTimeout(DurationMs(o), t)),
         cb |-> cb,
         out |-> <<>> ]

transform(o, b, chunk, t) ==
    LET b1 == IF b.bufferStartTime = NullTime
              THEN [b EXCEPT !.bufferStartTime = t]
              ELSE b
        b2 == [b1 EXCEPT !.buffer = Append(@, chunk), !.chunkCount = @ + 1]
    IN [ pb |-> Armed(clearTimeout(b2), setTimeout(DurationMs(o), t)),
         cb |-> checkBufferOverflow(o, b2, t),
         out |-> <<>> ]

BufferOptionChoices == [durationMs : {2, 3}, maxBufferMs : {2, 4}]

\* after start(): one bufferSpeech per value of noEmit, fed the same items at
\* the same times
BufInit ==
    /\ bopts \in BufferOptionChoices
    /\ pb = [noEmit \in BOOLEAN |-> NewBuffer]
    /\ calls = [noEmit \in BOOLEAN |-> <<>>]
    /\ queue = [noEmit \in BOOLEAN |-> <<>>]
    /\ arrivals = <<>>
    /\ phase = "open"
    /\ now = 1
    /\ options = DefaultOptions
    /\ vad = Constructed
    /\ emitted = <<>>
    /\ events = <<>>
    /\ hist = <<>>
    /\ written = 0
    /\ pending = <<>>
    /\ proc = NoCall

Applied(r) ==
    /\ pb' = [noEmit \in BOOLEAN |-> r[noEmit].pb]
    /\ calls' = [noEmit \in BOOLEAN |-> calls[noEmit] \o r[noEmit].cb]
    /\ queue' = [noEmit \in BOOLEAN |-> queue[noEmit] \o r[noEmit].out]

\* the stream hands the next item (the items are numbered 1, 2, ...) to transform
BufTransform ==
    /\ phase = "open"
    /\ Len(arrivals) < MaxItems
    /\ Applied([noEmit \in BOOLEAN |->
                  transform(bopts, pb[noEmit], Len(arrivals) + 1, now)])
    /\ arrivals' = Append(arrivals, now)
    /\ UNCHANGED <<phase, now, bopts, vadVars>>

\* the pending timers whose time has come
Due(b) == {id \in b.timers : now >= id}

\* the event loop runs the callback of a due timer, which is then no longer
\* pending
TimerFire ==
    /\ \E id \in UNION {Due(pb[noEmit]) : noEmit \in BOOLEAN} :
         Applied([noEmit \in BOOLEAN |->
                    IF id \in Due(pb[noEmit])
                    THEN IF phase = "aborted"
                         THEN releaseBufferErrored(
                                  noEmit, [pb[noEmit] EXCEPT !.timers = @ \ {id}], now)
                         ELSE releaseBuffer(
                                  noEmit, [pb[noEmit] EXCEPT !.timers = @ \ {id}], now)
                    ELSE [pb |-> pb[noEmit], cb |-> <<>>, out |-> <<>>]])
    /\ UNCHANGED <<phase, now, bopts, arrivals, vadVars>>

\* the upstream ends: flush
BufFlush ==
    /\ phase = "open"
    /\ Applied([noEmit \in BOOLEAN |-> releaseBuffer(noEmit, pb[noEmit], now)])
    /\ phase' = "closed"
    /\ UNCHANGED <<now, bopts, arrivals, vadVars>>

\* a millisecond passes; a due timer callback runs at most MaxLate late
Tick ==
    /\ now < MaxClock
    /\ \A noEmit \in BOOLEAN :
         \A id \in pb[noEmit].timers : now + 1 <= id + MaxLate
    /\ now' = now + 1
    /\ UNCHANGED <<phase, bopts, pb, calls, queue, arrivals, vadVars>>

BufNext == BufTransform \/ TimerFire \/ BufFlush \/ Tick
BufSpec == BufInit /\ [][BufNext]_vars

\* the pipe is aborted (pipeThrough's signal): the stream is errored and gets
\* no further transform or flush; the transformer has no handler for it
BufAbort ==
    /\ phase = "open"
    /\ phase' = "aborted"
    /\ UNCHANGED <<now, bufVars, vadVars>>

AbortNext == BufNext \/ BufAbort
AbortSpec == BufInit /\ [][AbortNext]_vars

----------------------------------------------------------------------------
(* Properties of bufferSpeech *)

IsBuffered(c) == c.e = "buffered"
IsError(c) == c.e = "error"
Releases(noEmit) == SelectSeq(calls[noEmit], IsBuffered)
Items == Frames(1, Len(arrivals))

RECURSIVE Concat(_)
Concat(seqs) == IF seqs = <<>> THEN <<>> ELSE Head(seqs) \o Concat(Tail(seqs))

ReleasedItems(noEmit) ==
    Concat([i \in 1..Len(Releases(noEmit)) |-> Releases(noEmit)[i].items])

\* every item came less than durationMs after the one before it
Within ==
    \A i \in 2..Len(arrivals) : arrivals[i] - arrivals[i - 1] < DurationMs(bopts)

\* the stream has ended, or the last timer armed has run
Silence ==
    \/ phase = "closed"
    \/ now > arrivals[Len(arrivals)] + DurationMs(bopts) + MaxLate

\* C6: N >= 1 items, each less than durationMs after the one before, then
\* silence: exactly one release, holding all N items in arrival order.
C6_OneReleaseOfAll ==
    (Len(arrivals) >= 1 /\ Within)
        => \A noEmit \in BOOLEAN :
             /\ Len(Releases(noEmit)) <= 1
             /\ \A i \in 1..Len(Releases(noEmit)) : Releases(noEmit)[i].items = Items
             /\ Silence => Len(Releases(noEmit)) = 1
             /\ ~noEmit =>
                  queue[noEmit] = [i \in 1..Len(Releases(noEmit)) |->
                                     [t |-> Releases(noEmit)[i].t, items |-> Items]]

C6_Witness ==
    /\ phase = "open"
    /\ Len(arrivals) = 3
    /\ \A i \in 1..3 : arrivals[i] = 1
    /\ Len(queue[FALSE]) = 1
    /\ queue[FALSE][1].items = <<1, 2, 3>>

C10_NoEmitSameReleases ==
    /\ queue[TRUE] = <<>>
    /\ \A i \in 1..Len(calls[TRUE]) : IsBuffered(calls[TRUE][i]) \/ IsError(calls[TRUE][i])
    /\ [i \in 1..Len(Releases(TRUE)) |->
          [t |-> Releases(TRUE)[i].t, items |-> Releases(TRUE)[i].items]]
         = queue[FALSE]

\* one release by the timer, one by the end of the stream
C10_Witness ==
    /\ phase = "closed"
    /\ Len(Releases(TRUE)) = 2
    /\ Releases(TRUE)[2].t < arrivals[Len(arrivals)] + DurationMs(bopts)

\* C16: at most one release timer is pending, the one pauseTimer names; every
\* item leaves exactly one timer pending, due durationMs after that item, the
\* one before it being cancelled; a release by a timer therefore comes no
\* less than durationMs after the latest item, never from a superseded timer.
C16_OneTimerRearmedByEveryItem ==
    /\ [](\A noEmit \in BOOLEAN :
            /\ Cardinality(pb[noEmit].timers) <= 1
            /\ pb[noEmit].timers = IF pb[noEmit].pauseTimer = NoTimer
                                   THEN {}
                                   ELSE {pb[noEmit].pauseTimer})
    /\ [][ \A noEmit \in BOOLEAN :
             /\ Len(arrivals') = Len(arrivals) + 1
                  => pb'[noEmit].timers = {now + DurationMs(bopts)}
             /\ (arrivals' = arrivals /\ phase' = phase
                   /\ calls'[noEmit] # calls[noEmit])
                  => /\ now >= arrivals[Len(arrivals)] + DurationMs(bopts)
                     /\ pb[noEmit].pauseTimer
                          = arrivals[Len(arrivals)] + DurationMs(bopts) ]_vars

\* a timer was superseded by a later item, and it is the later item's timer
\* that released both items
C16_Witness ==
    /\ phase = "open"
    /\ Len(arrivals) = 2
    /\ arrivals[2] > arrivals[1]
    /\ now > arrivals[1] + DurationMs(bopts) + MaxLate
    /\ Len(Releases(FALSE)) = 1
    /\ Releases(FALSE)[1].items = <<1, 2>>
    /\ Releases(FALSE)[1].t >= arrivals[2] + DurationMs(bopts)

\* the arrays enqueued without noEmit, and the one item i is in
Enqueued == [k \in 1..Len(queue[FALSE]) |-> queue[FALSE][k].items]
ReleaseOf(i) == CHOOSE k \in 1..Len(Enqueued) : Occurs(i, Enqueued[k])
Gap(i) == arrivals[i] - arrivals[i - 1]

\* C17 as stated: without noEmit, once the stream has ended, the arrays
\* enqueued, one after the other, are the items written (every item in exactly
\* one array); two items more than durationMs apart are in different arrays,
\* two items less than durationMs apart in the same one.
C17_GapsSplitReleases ==
    phase = "closed" =>
        /\ Concat(Enqueued) = Items
        /\ \A i \in 2..Len(arrivals) :
             /\ Gap(i) > DurationMs(bopts) => ReleaseOf(i) # ReleaseOf(i - 1)
             /\ Gap(i) < DurationMs(bopts) => ReleaseOf(i) = ReleaseOf(i - 1)

\* C17 as amended: the same, but it takes a gap longer than durationMs plus
\* the lateness of the timer callback to be sure of different arrays; items in
\* different arrays are at least durationMs apart.
C17_LateGapsSplitReleases ==
    phase = "closed" =>
        /\ Concat(Enqueued) = Items
        /\ \A i \in 2..Len(arrivals) :
             /\ Gap(i) > DurationMs(bopts) + MaxLate => ReleaseOf(i) # ReleaseOf(i - 1)
             /\ ReleaseOf(i) # ReleaseOf(i - 1) => Gap(i) >= DurationMs(bopts)
             /\ Gap(i) < DurationMs(bopts) => ReleaseOf(i) = ReleaseOf(i - 1)

\* two items close together, a long gap, a third item, the end of the stream
C17_Witness ==
    /\ phase = "closed"
    /\ Len(arrivals) = 3
    /\ Gap(2) < DurationMs(bopts) /\ Gap(2) > 0
    /\ Gap(3) > DurationMs(bopts) + MaxLate
    /\ Enqueued = << <<1, 2>>, <<3>> >>

\* C18: a release attempted on an empty buffer (the stream ends having
\* carried no item, or right after a release by the timer) calls back nothing
\* and enqueues nothing; no empty array is ever enqueued or reported.
C18_EmptyReleaseIsSilent ==
    /\ [](\A noEmit \in BOOLEAN :
            /\ \A k \in 1..Len(queue[noEmit]) : queue[noEmit][k].items # <<>>
            /\ \A k \in 1..Len(calls[noEmit]) : calls[noEmit][k].items # <<>>)
    /\ [][ \A noEmit \in BOOLEAN :
             (arrivals' = arrivals /\ pb[noEmit].buffer = <<>>)
                => calls'[noEmit] = calls[noEmit] /\ queue'[noEmit] = queue[noEmit] ]_vars

\* a stream that carried no item has ended, some time after it was opened
C18_Witness ==
    /\ phase = "closed"
    /\ arrivals = <<>>
    /\ now > 1
    /\ \A noEmit \in BOOLEAN : calls[noEmit] = <<>> /\ queue[noEmit] = <<>>

\* C19: once the pipeline is aborted no release timer is pending any more,
\* and from then on onBuffered is not called and nothing is enqueued.
C19_AbortCancelsTimer ==
    /\ [](phase = "aborted" => \A noEmit \in BOOLEAN : pb[noEmit].timers = {})
    /\ [][ phase = "aborted" => calls' = calls /\ queue' = queue ]_vars

\* C39: between any two of transform, timer callback and flush, a release
\* timer is pending exactly when the buffer holds items, which is exactly when
\* bufferStartTime is set; and chunkCount is the number of items buffered.
C39_TimerBufferStartTimeAgree ==
    \A noEmit \in BOOLEAN :
        /\ (pb[noEmit].timers # {}) <=> (pb[noEmit].buffer # <<>>)
        /\ (pb[noEmit].buffer # <<>>) <=> (pb[noEmit].bufferStartTime # NullTime)
        /\ pb[noEmit].chunkCount = Len(pb[noEmit].buffer)

\* a first buffer has been released by its timer and two items of the next
\* are waiting for theirs
C39_Witness ==
    /\ phase = "open"
    /\ Len(queue[FALSE]) = 1
    /\ pb[FALSE].chunkCount = 2
    /\ Len(pb[FALSE].buffer) = 2
    /\ pb[FALSE].timers # {}
    /\ pb[FALSE].bufferStartTime > arrivals[1]

====
